---- MODULE Spec2Model ----
(***************************************************************************)
(* A model of the OpenCL convenience layer (clwrap) of gpuowl: the timing  *)
(* utilities, the CHECK error policy, device enumeration, compile() with   *)
(* its dialect fallback, argument binding and kernel launch.               *)
(*                                                                         *)
(* The calling thread is the only process.  The native runtime and the     *)
(* wall clock are the environment: every native call returns a status      *)
(* chosen from Statuses, every clock reading is chosen by Advance.         *)
(***************************************************************************)
EXTENDS Integers, Sequences, FiniteSets

VARIABLES
  clock,      \* wall clock, microseconds since the epoch (gettimeofday)
  prev,       \* MicroTimer::prev
  prevAt,     \* the clock value at which prev was read (history)
  us,         \* TimeCounter::us, one per counter sharing the MicroTimer
  got,        \* the value the last TimeCounter::get() returned
  hist,       \* the timer operations performed so far (history)
  pc,         \* where the calling thread is in the wrapper it called
  call,       \* the wrapper called and its arguments
  natives,    \* the native calls issued so far, in order, with their status
  aborted,    \* the process has aborted (assert(false), or a crash)
  diag,       \* what was written to stderr
  notices,    \* what was written to stdout
  ret,        \* the value the wrapper returned
  err,        \* compile(): int err
  program,    \* compile(): the state of the program object created
  logSize,    \* compile(): size_t logSize
  nPlatforms, \* getDeviceIDs(), getNumberOfDevices(): unsigned nPlatforms
  i,          \* getDeviceIDs(), getNumberOfDevices(): the loop index
  n,          \* getDeviceIDs(), getNumberOfDevices(): unsigned n
  written,    \* getDeviceIDs(): the entries of out[] the runtime wrote
  slots       \* the kernel's argument slots, as bound by clSetKernelArg

timerVars == <<clock, prev, prevAt, us, got, hist>>
ctlVars == <<pc, call, natives, aborted, diag, notices, ret>>
compileVars == <<err, program, logSize>>
enumVars == <<nPlatforms, i, n, written>>
wrapVars == <<ctlVars, compileVars, enumVars, slots>>
vars == <<timerVars, wrapVars>>

(***************************************************************************)
(* Program constants and the bounds of the model.                          *)
(***************************************************************************)
UsecPerSec == 1000000
CL_SUCCESS == 0
CL_INVALID_COMPILER_OPTIONS == -66
BufSize == 64 * 1024
InfoBufSize == 128
PlatformCap == 8
GroupSize == 256
NArgs == 6
NRunArgs == 2

NCounters == 2
MaxOps == 4
MaxAvail == 9
MaxSize == 9
MaxDev == 2

Counters == 1..NCounters
\* The time that passes between two operations of the thread.
Elapses == {0, 1, UsecPerSec - 1}
\* The null pointer: no TimeCounter, no program.
nullptr == 0

(***************************************************************************)
(* Time utilities.                                                         *)
(***************************************************************************)
\* u64 timeMicros(): tv_usec of gettimeofday, the microseconds within the
\* current second.
timeMicros(t) == t % UsecPerSec

\* The value MicroTimer::delta() returns when it reads `now` and holds p.
MicroTimerDelta(now, p) == IF now > p THEN now - p ELSE UsecPerSec + now - p

\* tick() with = in place of +=.
TickUsAssign(old, d) == d

\* TimeCounter::tick(): us += timer->delta().
TickUs(old, d) == old + d

\* TimeCounter::reset(): us = 0.
ResetUs(old) == 0

TimerInit ==
  /\ clock \in {0, UsecPerSec - 1}
  /\ prev = timeMicros(clock)
  /\ prevAt = clock
  /\ us = [c \in Counters |-> 0]
  /\ got = [c |-> nullptr, v |-> 0]
  /\ hist = <<>>

\* The environment: e microseconds pass.
Pass(e) ==
  /\ clock' = clock + e
  /\ hist' = Append(hist, [op |-> "advance", c |-> nullptr, d |-> 0, e |-> e])

\* MicroTimer::delta() on the shared timer, called for counter c (nullptr: called
\* directly).  DeltaValue is the value the call returns.
DeltaValue == MicroTimerDelta(timeMicros(clock), prev)

DeltaCall(c) ==
  /\ prev' = timeMicros(clock)
  /\ prevAt' = clock
  /\ hist' = Append(hist, [op |-> IF c = nullptr THEN "delta" ELSE "tick",
                           c |-> c, d |-> DeltaValue, e |-> clock - prevAt])

\* TimeCounter::tick() on counter c.
TickCall(c) ==
  /\ DeltaCall(c)
  /\ us' = [us EXCEPT ![c] = TickUs(us[c], DeltaValue)]

Advance(e) ==
  /\ Len(hist) < MaxOps
  /\ Pass(e)
  /\ UNCHANGED <<prev, prevAt, us, got, wrapVars>>

\* MicroTimer::delta() called on the shared timer directly.
Delta ==
  /\ Len(hist) < MaxOps
  /\ DeltaCall(nullptr)
  /\ UNCHANGED <<clock, us, got, wrapVars>>

Tick(c) ==
  /\ Len(hist) < MaxOps
  /\ TickCall(c)
  /\ UNCHANGED <<clock, got, wrapVars>>

\* TimeCounter::reset() on counter c.
Reset(c) ==
  /\ Len(hist) < MaxOps
  /\ us' = [us EXCEPT ![c] = ResetUs(us[c])]
  /\ hist' = Append(hist, [op |-> "reset", c |-> c, d |-> 0, e |-> 0])
  /\ UNCHANGED <<clock, prev, prevAt, got, wrapVars>>

\* TimeCounter::get() on counter c.
Get(c) ==
  /\ got' = [c |-> c, v |-> us[c]]
  /\ UNCHANGED <<clock, prev, prevAt, us, hist, wrapVars>>

TimerNext ==
  \/ \E e \in Elapses : Advance(e)
  \/ Delta
  \/ \E c \in Counters : Tick(c)
  \/ \E c \in Counters : Reset(c)
  \/ \E c \in Counters : Get(c)

(***************************************************************************)
(* The native runtime and the error policy.                                *)
(***************************************************************************)
\* The status a native call can return: success, a negative error code, a
\* positive code.
Statuses == {CL_SUCCESS, CL_INVALID_COMPILER_OPTIONS, 1}

\* The check with < in place of !=.
CheckFailsNegative(e) == e < CL_SUCCESS

\* CHECK(err), CHECK2(err, mes): whether the status makes the macro abort.
CheckFails(e) == e # CL_SUCCESS

Native(f, checked, st, a) == [f |-> f, checked |-> checked, st |-> st, a |-> a]

NoCall == [fn |-> "none", counter |-> nullptr, workSize |-> 0, args |-> <<>>,
           onlyGPU |-> FALSE, size |-> 0, opts |-> <<>>]
NoRet == [done |-> FALSE, v |-> 0]
Returned(v) == [done |-> TRUE, v |-> v]
\* A handle the runtime gave out: any non-null value.
Handle == nullptr + 1

WrapInit ==
  /\ pc = "idle"
  /\ call = NoCall
  /\ natives = <<>>
  /\ aborted = FALSE
  /\ diag = <<>>
  /\ notices = <<>>
  /\ ret = NoRet
  /\ err = CL_SUCCESS
  /\ program = "none"
  /\ logSize = 0
  /\ nPlatforms = 0
  /\ i = 0
  /\ n = 0
  /\ written = {}
  /\ slots = [s \in 0..(NArgs - 1) |-> 0]

\* fprintf(stderr, "error %d\n", e); assert(false);
Abort(msg) ==
  /\ aborted' = TRUE
  /\ pc' = "aborted"
  /\ diag' = Append(diag, msg)

\* The wrapper returns v to its caller.
Return(v) ==
  /\ pc' = "done"
  /\ ret' = Returned(v)

(***************************************************************************)
(* Argument binding and kernel launch.                                     *)
(***************************************************************************)
ArgSizes == {4, 8}
WorkSizes == {GroupSize, 2 * GroupSize}

\* The overload of four arguments with the slot literal of the one before it.
LastSlotSlip(k) == IF k = 4 THEN 2 ELSE k - 1

\* The slot literal in the setArg call of the setArgs overload of k arguments.
LastSlot(k) == k - 1

\* setArgs(k, a1, ..., ak): the setArg calls it makes, in order.  The overload
\* of k arguments calls the overload of k - 1 and then binds its last argument.
RECURSIVE SetArgsPlan(_)
SetArgsPlan(k) ==
  IF k = 1 THEN << [pos |-> LastSlot(1), arg |-> 1] >>
  ELSE Append(SetArgsPlan(k - 1), [pos |-> LastSlot(k), arg |-> k])

\* run() with the finish left out before the tick.
AfterEnqueueNoFinish(counter) == IF counter # nullptr THEN "tick" ELSE "done"

\* run(): if (counter) { finish(queue); counter->tick(); }
\* Where run() goes after the enqueue.
AfterEnqueue(counter) == IF counter # nullptr THEN "finish" ELSE "done"

CallSetArgs(k, sizes) ==
  /\ pc = "idle"
  /\ call' = [NoCall EXCEPT !.fn = "setArgs", !.args = sizes]
  /\ pc' = "setArg"
  /\ UNCHANGED <<natives, aborted, diag, notices, ret, compileVars, enumVars,
                 slots, timerVars>>

\* run(queue, kernel, workSize, a) and run(queue, kernel, workSize, a, b)
CallRunArgs(k, sizes, w) ==
  /\ pc = "idle"
  /\ call' = [NoCall EXCEPT !.fn = "runArgs", !.args = sizes, !.workSize = w]
  /\ pc' = "setArg"
  /\ UNCHANGED <<natives, aborted, diag, notices, ret, compileVars, enumVars,
                 slots, timerVars>>

\* run(queue, kernel, workSize, counter)
CallRun(c, w) ==
  /\ pc = "idle"
  /\ call' = [NoCall EXCEPT !.fn = "run", !.counter = c, !.workSize = w]
  /\ pc' = "enqueue"
  /\ UNCHANGED <<natives, aborted, diag, notices, ret, compileVars, enumVars,
                 slots, timerVars>>

\* setArg(k, pos, value): CHECK(clSetKernelArg(k, pos, sizeof(value), &value))
SetArg(st) ==
  /\ pc = "setArg"
  /\ LET plan == SetArgsPlan(Len(call.args))
         j == Len(natives) + 1
         item == plan[j]
     IN /\ natives' = Append(natives, Native("clSetKernelArg", TRUE, st,
                               <<item.pos, call.args[item.arg], item.arg>>))
        /\ IF CheckFails(st)
           THEN Abort(<<"error", st>>) /\ UNCHANGED <<slots, ret>>
           ELSE /\ slots' = [slots EXCEPT ![item.pos] = item.arg]
                /\ UNCHANGED <<aborted, diag>>
                /\ IF j < Len(plan) THEN pc' = "setArg" /\ UNCHANGED ret
                   ELSE IF call.fn = "runArgs" THEN pc' = "enqueue" /\ UNCHANGED ret
                   ELSE Return(0)
  /\ UNCHANGED <<call, notices, compileVars, enumVars, timerVars>>

\* run(): CHECK(clEnqueueNDRangeKernel(queue, kernel, 1, NULL, &workSize,
\* &groupSize, 0, NULL, NULL))
Enqueue(st) ==
  /\ pc = "enqueue"
  /\ natives' = Append(natives, Native("clEnqueueNDRangeKernel", TRUE, st,
                         <<1, call.workSize, GroupSize>>))
  /\ IF CheckFails(st)
     THEN Abort(<<"error", st>>) /\ UNCHANGED ret
     ELSE /\ UNCHANGED <<aborted, diag>>
          /\ pc' = AfterEnqueue(call.counter)
          /\ ret' = IF pc' = "done" THEN Returned(0) ELSE ret
  /\ UNCHANGED <<call, notices, compileVars, enumVars, slots, timerVars>>

\* run(): finish(queue), which is CHECK(clFinish(q)).  The call blocks: e
\* microseconds pass before it returns.
RunFinish(st, e) ==
  /\ pc = "finish"
  /\ natives' = Append(natives, Native("clFinish", TRUE, st, <<>>))
  /\ Pass(e)
  /\ IF CheckFails(st)
     THEN Abort(<<"error", st>>)
     ELSE pc' = "tick" /\ UNCHANGED <<aborted, diag>>
  /\ UNCHANGED <<call, notices, ret, compileVars, enumVars, slots, prev, prevAt,
                 us, got>>

\* run(): counter->tick()
RunTick ==
  /\ pc = "tick"
  /\ TickCall(call.counter)
  /\ Return(0)
  /\ UNCHANGED <<call, natives, aborted, diag, notices, compileVars, enumVars,
                 slots, clock, got>>

LaunchNext ==
  \/ \E k \in 1..NArgs : \E sizes \in [1..k -> ArgSizes] : CallSetArgs(k, sizes)
  \/ \E k \in 1..NRunArgs : \E sizes \in [1..k -> ArgSizes] : \E w \in WorkSizes :
       CallRunArgs(k, sizes, w)
  \/ \E c \in Counters \cup {nullptr} : \E w \in WorkSizes : CallRun(c, w)
  \/ \E st \in Statuses : SetArg(st)
  \/ \E st \in Statuses : Enqueue(st)
  \/ \E st \in Statuses : \E e \in Elapses : RunFinish(st, e)
  \/ RunTick

(***************************************************************************)
(* The wrappers that forward one native call under CHECK or CHECK2.        *)
(***************************************************************************)
\* wrapper -> the native call it forwards, whether the wrapper returns the
\* handle the call created, and whether the check carries a label (CHECK2).
Forwarders ==
  [createContext  |-> [f |-> "clCreateContext",       handle |-> TRUE,  label |-> FALSE],
   releaseContext |-> [f |-> "clReleaseContext",      handle |-> FALSE, label |-> FALSE],
   releaseProgram |-> [f |-> "clReleaseProgram",      handle |-> FALSE, label |-> FALSE],
   releaseMem     |-> [f |-> "clReleaseMemObject",    handle |-> FALSE, label |-> FALSE],
   releaseQueue   |-> [f |-> "clReleaseCommandQueue", handle |-> FALSE, label |-> FALSE],
   releaseKernel  |-> [f |-> "clReleaseKernel",       handle |-> FALSE, label |-> FALSE],
   makeKernel     |-> [f |-> "clCreateKernel",        handle |-> TRUE,  label |-> TRUE],
   makeBuf        |-> [f |-> "clCreateBuffer",        handle |-> TRUE,  label |-> FALSE],
   makeQueue      |-> [f |-> "clCreateCommandQueue",  handle |-> TRUE,  label |-> FALSE],
   flush          |-> [f |-> "clFlush",               handle |-> FALSE, label |-> FALSE],
   finish         |-> [f |-> "clFinish",              handle |-> FALSE, label |-> FALSE],
   read           |-> [f |-> "clEnqueueReadBuffer",   handle |-> FALSE, label |-> FALSE],
   write          |-> [f |-> "clEnqueueWriteBuffer",  handle |-> FALSE, label |-> FALSE]]

CallForwarder(w) ==
  /\ pc = "idle"
  /\ call' = [NoCall EXCEPT !.fn = w]
  /\ pc' = "forward"
  /\ UNCHANGED <<natives, aborted, diag, notices, ret, compileVars, enumVars,
                 slots, timerVars>>

\* The native call and its check; a creating wrapper returns the handle only
\* after the check.
Forward(st) ==
  /\ pc = "forward"
  /\ LET w == Forwarders[call.fn]
     IN /\ natives' = Append(natives, Native(w.f, TRUE, st, <<>>))
        /\ IF CheckFails(st)
           THEN /\ Abort(IF w.label THEN <<"error", st, "name">> ELSE <<"error", st>>)
                /\ UNCHANGED ret
           ELSE /\ Return(IF w.handle THEN Handle ELSE 0)
                /\ UNCHANGED <<aborted, diag>>
  /\ UNCHANGED <<call, notices, compileVars, enumVars, slots, timerVars>>

\* getInfo(id, what, bufSize, buf), and getDeviceInfo(), which calls getInfo for
\* the name and the version and then reads the ECC flag.
CallGetInfo(f) ==
  /\ pc = "idle"
  /\ call' = [NoCall EXCEPT !.fn = f, !.size = InfoBufSize]
  /\ pc' = "getInfo"
  /\ UNCHANGED <<natives, aborted, diag, notices, ret, compileVars, enumVars,
                 slots, timerVars>>

\* CHECK(clGetDeviceInfo(id, what, bufSize, buf, &outSize));
\* assert(outSize < bufSize); buf[outSize] = 0;
GetInfo(st, outSize) ==
  /\ pc = "getInfo"
  /\ natives' = Append(natives, Native("clGetDeviceInfo", TRUE, st, <<call.size, outSize>>))
  /\ IF CheckFails(st)
     THEN Abort(<<"error", st>>) /\ UNCHANGED ret
     ELSE IF ~(outSize < call.size)
     THEN Abort(<<"assert">>) /\ UNCHANGED ret
     ELSE /\ UNCHANGED <<aborted, diag>>
          /\ IF call.fn = "getInfo" THEN Return(0)
             ELSE /\ pc' = IF Len(natives) = 0 THEN "getInfo" ELSE "ecc"
                  /\ UNCHANGED ret
  /\ UNCHANGED <<call, notices, compileVars, enumVars, slots, timerVars>>

\* getDeviceInfo(): CHECK(clGetDeviceInfo(device,
\* CL_DEVICE_ERROR_CORRECTION_SUPPORT, sizeof(isEcc), &isEcc, NULL)); snprintf
GetEcc(st) ==
  /\ pc = "ecc"
  /\ natives' = Append(natives, Native("clGetDeviceInfo", TRUE, st, <<4, 4>>))
  /\ IF CheckFails(st)
     THEN Abort(<<"error", st>>) /\ UNCHANGED ret
     ELSE Return(0) /\ UNCHANGED <<aborted, diag>>
  /\ UNCHANGED <<call, notices, compileVars, enumVars, slots, timerVars>>

ForwardNext ==
  \/ \E w \in DOMAIN Forwarders : CallForwarder(w)
  \/ \E st \in Statuses : Forward(st)
  \/ \E f \in {"getInfo", "getDeviceInfo"} : CallGetInfo(f)
  \/ \E st \in Statuses : \E outSize \in {0, InfoBufSize - 1, InfoBufSize} :
       GetInfo(st, outSize)
  \/ \E st \in Statuses : GetEcc(st)

(***************************************************************************)
(* Device enumeration.                                                     *)
(***************************************************************************)
\* int getDeviceIDs(bool onlyGPU, size_t size, cl_device_id *out)
CallGetDeviceIDs(onlyGPU, size) ==
  /\ pc = "idle"
  /\ call' = [NoCall EXCEPT !.fn = "getDeviceIDs", !.onlyGPU = onlyGPU, !.size = size]
  /\ pc' = "platforms"
  /\ UNCHANGED <<natives, aborted, diag, notices, ret, compileVars, enumVars,
                 slots, timerVars>>

\* int getNumberOfDevices()
CallGetNumberOfDevices ==
  /\ pc = "idle"
  /\ call' = [NoCall EXCEPT !.fn = "getNumberOfDevices"]
  /\ pc' = "platforms"
  /\ UNCHANGED <<natives, aborted, diag, notices, ret, compileVars, enumVars,
                 slots, timerVars>>

\* CHECK(clGetPlatformIDs(8, platforms, &nPlatforms)): the runtime fills at most
\* PlatformCap entries of platforms[] and stores in nPlatforms the number of
\* platforms available, avail.
GetPlatformIDs(st, avail) ==
  /\ pc = "platforms"
  /\ natives' = Append(natives, Native("clGetPlatformIDs", TRUE, st, <<PlatformCap, avail>>))
  /\ IF CheckFails(st)
     THEN Abort(<<"error", st>>) /\ UNCHANGED nPlatforms
     ELSE /\ nPlatforms' = avail
          /\ pc' = "loop"
          /\ UNCHANGED <<aborted, diag>>
  /\ UNCHANGED <<call, notices, ret, compileVars, i, n, written, slots, timerVars>>

\* The loop condition: i < (int) nPlatforms && size > n in getDeviceIDs,
\* i < (int) nPlatforms in getNumberOfDevices.
LoopContinues ==
  IF call.fn = "getDeviceIDs" THEN i < nPlatforms /\ call.size > n
  ELSE i < nPlatforms

\* num_entries of the clGetDeviceIDs call: size - n, and 0 in getNumberOfDevices.
NumEntries == IF call.fn = "getDeviceIDs" THEN call.size - n ELSE 0

\* One iteration: CHECK(clGetDeviceIDs(platforms[i], type, num_entries, out + n,
\* &delta)); n += delta.  The runtime finds cnt matching devices on the
\* platform, writes at most num_entries of them from out[n] on, and stores cnt
\* in delta.  For i >= PlatformCap the handle read from platforms[i] is outside
\* the array: the call then does whatever the runtime does with that value.
QueryPlatform(st, cnt) ==
  /\ pc = "loop"
  /\ LoopContinues
  /\ natives' = Append(natives, Native("clGetDeviceIDs", TRUE, st,
                         <<i, call.onlyGPU, NumEntries, cnt>>))
  /\ IF CheckFails(st)
     THEN Abort(<<"error", st>>) /\ UNCHANGED <<i, n, written>>
     ELSE /\ written' = written \cup
                 {n + k : k \in 0..((IF cnt < NumEntries THEN cnt ELSE NumEntries) - 1)}
          /\ n' = n + cnt
          /\ i' = i + 1
          /\ pc' = "loop"
          /\ UNCHANGED <<aborted, diag>>
  /\ UNCHANGED <<call, notices, ret, compileVars, nPlatforms, slots, timerVars>>

\* return n;
EnumReturn ==
  /\ pc = "loop"
  /\ ~LoopContinues
  /\ Return(n)
  /\ UNCHANGED <<call, natives, aborted, diag, notices, compileVars, enumVars,
                 slots, timerVars>>

EnumNext ==
  \/ \E onlyGPU \in BOOLEAN : \E size \in 0..MaxSize : CallGetDeviceIDs(onlyGPU, size)
  \/ CallGetNumberOfDevices
  \/ \E st \in Statuses : \E avail \in 0..MaxAvail : GetPlatformIDs(st, avail)
  \/ \E st \in Statuses : \E cnt \in 1..MaxDev : QueryPlatform(st, cnt)
  \/ EnumReturn

(***************************************************************************)
(* compile(): the program is built with the CL2.0 options and, when that   *)
(* fails, with the fallback options.                                       *)
(***************************************************************************)
\* The options the caller passes.
CallerOpts == {<<>>, <<"-DX">>}
\* What fread can return for a readable file: at most sizeof(buf).
FileSizes == {0, BufSize - 1, BufSize}
\* The build-log sizes clGetProgramBuildInfo can store in logSize.
LogSizes == {1, BufSize - 1, BufSize}

\* "-cl-fast-relaxed-math -cl-std=CL2.0 -cl-uniform-work-group-size %s"
CL2Options(opts) ==
  <<"-cl-fast-relaxed-math", "-cl-std=CL2.0", "-cl-uniform-work-group-size">> \o opts
\* "-cl-fast-relaxed-math %s"
FallbackOptions(opts) == <<"-cl-fast-relaxed-math">> \o opts

\* if ((err = clBuildProgram(...)) < 0): whether the first build's status makes
\* compile() fall back.
FallsBack(e) == e < 0

\* if (err != CL_SUCCESS): whether compile() takes the build-log path.
BuildFailed(e) == e # CL_SUCCESS

\* cl_program compile(device, context, fileName, opts)
CallCompile(opts) ==
  /\ pc = "idle"
  /\ call' = [NoCall EXCEPT !.fn = "compile", !.opts = opts]
  /\ pc' = "fopen"
  /\ UNCHANGED <<natives, aborted, diag, notices, ret, compileVars, enumVars,
                 slots, timerVars>>

\* FILE *fi = fopen(fileName, "r"); if (!fi) { fprintf(stderr, ...); return 0; }
Fopen(opened) ==
  /\ pc = "fopen"
  /\ IF opened
     THEN pc' = "fread" /\ UNCHANGED <<diag, ret>>
     ELSE /\ diag' = Append(diag, <<"Could not open cl source file">>)
          /\ Return(nullptr)
  /\ UNCHANGED <<call, natives, aborted, notices, compileVars, enumVars, slots,
                 timerVars>>

\* size_t size = fread(buf, 1, sizeof(buf), fi); fclose(fi);
\* assert(size < sizeof(buf));
Fread(size) ==
  /\ pc = "fread"
  /\ call' = [call EXCEPT !.size = size]
  /\ IF size < BufSize
     THEN pc' = "create" /\ UNCHANGED <<aborted, diag>>
     ELSE Abort(<<"assert">>)
  /\ UNCHANGED <<natives, notices, ret, compileVars, enumVars, slots, timerVars>>

\* cl_program program = clCreateProgramWithSource(context, 1, &pbuf, &size, &err);
\* CHECK(err);
CreateProgram(st) ==
  /\ pc = "create"
  /\ natives' = Append(natives, Native("clCreateProgramWithSource", TRUE, st, <<call.size>>))
  /\ err' = st
  /\ IF CheckFails(st)
     THEN Abort(<<"error", st>>) /\ UNCHANGED program
     ELSE /\ program' = "live"
          /\ pc' = "build"
          /\ UNCHANGED <<aborted, diag>>
  /\ UNCHANGED <<call, notices, ret, logSize, enumVars, slots, timerVars>>

\* The end of compile() once err holds the status e of the last build:
\* the build-log path when it failed, return program otherwise.
AfterBuild(e) ==
  IF BuildFailed(e) THEN pc' = "buildLog" /\ UNCHANGED ret
  ELSE Return(Handle)

\* The first build, with the CL2.0 options; on FallsBack the notice is printed.
BuildCL2(st) ==
  /\ pc = "build"
  /\ natives' = Append(natives, Native("clBuildProgram", FALSE, st, CL2Options(call.opts)))
  /\ err' = st
  /\ IF FallsBack(st)
     THEN /\ notices' = Append(notices, <<"Falling back to CL1.x compilation", st>>)
          /\ pc' = "fallback"
          /\ UNCHANGED ret
     ELSE /\ AfterBuild(st)
          /\ UNCHANGED notices
  /\ UNCHANGED <<call, aborted, diag, program, logSize, enumVars, slots, timerVars>>

\* The second build, with the fallback options.
BuildFallback(st) ==
  /\ pc = "fallback"
  /\ natives' = Append(natives, Native("clBuildProgram", FALSE, st,
                         FallbackOptions(call.opts)))
  /\ err' = st
  /\ AfterBuild(st)
  /\ UNCHANGED <<call, aborted, diag, notices, program, logSize, enumVars, slots,
                 timerVars>>

\* clGetProgramBuildInfo(program, device, CL_PROGRAM_BUILD_LOG, sizeof(buf), buf,
\* &logSize); buf[logSize] = 0; fprintf(stderr, ...); return 0;
\* The status is not looked at: logSize is what the runtime stored or, when
\* the call failed, whatever the uninitialized variable held; ls either way.  A
\* terminator written at buf[sizeof(buf)] is outside buf: the process then
\* either goes on or crashes.  compile() returns without releasing program.
BuildLog(st, ls, crash) ==
  /\ pc = "buildLog"
  /\ natives' = Append(natives, Native("clGetProgramBuildInfo", FALSE, st, <<BufSize, ls>>))
  /\ logSize' = ls
  /\ IF crash /\ ~(ls < BufSize)
     THEN /\ aborted' = TRUE
          /\ pc' = "aborted"
          /\ UNCHANGED <<diag, ret>>
     ELSE /\ diag' = Append(diag, <<"OpenCL compilation error", err, ls>>)
          /\ Return(nullptr)
          /\ UNCHANGED aborted
  /\ UNCHANGED <<call, notices, err, program, enumVars, slots, timerVars>>

CompileNext ==
  \/ \E opts \in CallerOpts : CallCompile(opts)
  \/ \E opened \in BOOLEAN : Fopen(opened)
  \/ \E size \in FileSizes : Fread(size)
  \/ \E st \in Statuses : CreateProgram(st)
  \/ \E st \in Statuses : BuildCL2(st)
  \/ \E st \in Statuses : BuildFallback(st)
  \/ \E st \in Statuses : \E ls \in LogSizes : \E crash \in BOOLEAN : BuildLog(st, ls, crash)

Init == TimerInit /\ WrapInit
Next == LaunchNext \/ ForwardNext \/ EnumNext \/ CompileNext
Spec == Init /\ [][Next]_vars
SpecTimer == Init /\ [][TimerNext]_vars

(***************************************************************************)
(* Properties of the wrapper, and the operators they are stated over.      *)
(***************************************************************************)
Last(q) == q[Len(q)]
Front(q) == SubSeq(q, 1, Len(q) - 1)
IsPrefix(p, q) == Len(p) <= Len(q) /\ p = SubSeq(q, 1, Len(p))

NativesOf(f) == SelectSeq(natives, LAMBDA x : x.f = f)
NativeNames == [k \in 1..Len(natives) |-> natives[k].f]
Builds == NativesOf("clBuildProgram")
Queries == NativesOf("clGetDeviceIDs")
TicksIn(h) == SelectSeq(h, LAMBDA x : x.op = "tick")

\* The sum of the values delta() returned to the ticks of counter c in h since
\* the last reset of c in h.
RECURSIVE Credit(_, _)
Credit(h, c) ==
  IF h = <<>> THEN 0
  ELSE IF Last(h).c = c /\ Last(h).op = "reset" THEN 0
  ELSE IF Last(h).c = c /\ Last(h).op = "tick" THEN Credit(Front(h), c) + Last(h).d
  ELSE Credit(Front(h), c)

\* The devices the runtime reported in all the clGetDeviceIDs calls made.
RECURSIVE Matching(_)
Matching(q) == IF q = <<>> THEN 0 ELSE Matching(Front(q)) + Last(q).a[4]

\* The step appends a timer operation of kind op to hist.
Did(op) == Len(hist') = Len(hist) + 1 /\ Last(hist').op = op

(***************************************************************************)
(* C1: in compile(), whenever the first clBuildProgram returns a status    *)
(* other than CL_SUCCESS, exactly one second clBuildProgram is made, with  *)
(* the fallback options, and exactly one fallback notice is printed; if    *)
(* the second returns CL_SUCCESS, compile() returns the non-null program   *)
(* and the process does not abort.                                         *)
(***************************************************************************)
C1_FallbackOnAnyFailure ==
  (/\ call.fn = "compile"
   /\ pc \in {"buildLog", "done", "aborted"}
   /\ Len(Builds) >= 1
   /\ Builds[1].st # CL_SUCCESS)
  => /\ Len(Builds) = 2
     /\ Builds[2].a = FallbackOptions(call.opts)
     /\ Len(notices) = 1
     /\ Builds[2].st = CL_SUCCESS
          => pc = "done" /\ ret = Returned(Handle) /\ ~aborted

(***************************************************************************)
(* C2: in compile(), when both builds fail, the function returns the null  *)
(* program without aborting, after retrieving the build log and writing it *)
(* to stderr, for every log size up to the buffer size: the terminator is  *)
(* written inside the buffer.                                              *)
(***************************************************************************)
C2_BothFailReturnsNull ==
  (/\ call.fn = "compile"
   /\ pc \in {"done", "aborted"}
   /\ Len(Builds) = 2
   /\ Builds[2].st # CL_SUCCESS
   /\ Last(natives).f = "clGetProgramBuildInfo"
   /\ Last(natives).st = CL_SUCCESS)
  => /\ ~aborted
     /\ ret = Returned(nullptr)
     /\ diag # <<>> /\ Last(diag)[1] = "OpenCL compilation error"
     /\ logSize < BufSize

(***************************************************************************)
(* C3: getDeviceIDs returns the number of handles written into out, never  *)
(* more than size; with size = 0 it returns 0 and writes nothing; with     *)
(* size larger than the number of matching devices it returns that number. *)
(***************************************************************************)
C3_ReturnsWritten ==
  (call.fn = "getDeviceIDs" /\ pc = "done")
  => /\ ret.v = Cardinality(written)
     /\ ret.v <= call.size
     /\ call.size = 0 => ret.v = 0 /\ written = {}
     /\ call.size > Matching(Queries) => ret.v = Matching(Queries)

(***************************************************************************)
(* C4: a native call under CHECK or CHECK2 that returns a status other     *)
(* than CL_SUCCESS, negative or positive, is the last thing the process    *)
(* does: the code is printed, the process aborts, the wrapper returns      *)
(* nothing, and no step follows.                                           *)
(***************************************************************************)
FailFast ==
  \A k \in 1..Len(natives) :
    (natives[k].checked /\ natives[k].st # CL_SUCCESS)
    => /\ k = Len(natives)
       /\ aborted /\ pc = "aborted"
       /\ ret = NoRet
       /\ diag # <<>> /\ Last(diag)[1] = "error" /\ Last(diag)[2] = natives[k].st

C4_FailFast == []FailFast /\ [][~aborted]_vars

C4_Witness ==
  /\ call.fn = "runArgs" /\ aborted
  /\ Len(natives) = 2
  /\ natives[2].f = "clEnqueueNDRangeKernel" /\ natives[2].st > 0
  /\ slots[0] = 1

(***************************************************************************)
(* C5: run() with a counter makes one enqueue (one dimension, group size   *)
(* 256), then one finish, then one tick of that counter, and returns only  *)
(* after the finish returned; run() without a counter, the argument-       *)
(* binding overloads included, makes the enqueue only, never a finish, and *)
(* performs no operation on any timer or counter.                          *)
(***************************************************************************)
C5_RunOrder ==
  /\ (call.fn = "run" /\ call.counter # nullptr)
     => /\ IsPrefix(NativeNames, <<"clEnqueueNDRangeKernel", "clFinish">>)
        /\ Len(natives) >= 1 => natives[1].a = <<1, call.workSize, 256>>
        /\ TicksIn(hist) # <<>>
             => /\ Len(natives) = 2 /\ natives[2].st = CL_SUCCESS
                /\ Len(TicksIn(hist)) = 1
                /\ TicksIn(hist)[1].c = call.counter
                /\ Last(hist).op = "tick"
        /\ ret.done => Len(TicksIn(hist)) = 1
        /\ pc = "done" <=> ret.done
  /\ (call.fn \in {"run", "runArgs"} /\ call.counter = nullptr)
     => /\ NativesOf("clFinish") = <<>>
        /\ Len(NativesOf("clEnqueueNDRangeKernel")) <= 1
        /\ hist = <<>>
        /\ us = [c \in Counters |-> 0]
        /\ prev = timeMicros(clock)
        /\ ret.done
             => /\ Last(natives).f = "clEnqueueNDRangeKernel"
                /\ Last(natives).a = <<1, call.workSize, 256>>
                /\ Len(NativesOf("clEnqueueNDRangeKernel")) = 1

C5_Witness ==
  /\ call.fn = "run" /\ call.counter = 2 /\ pc = "done"
  /\ us[2] = UsecPerSec - 1 /\ us[1] = 0

(***************************************************************************)
(* C6: each counter's get() is the sum of the values delta() returned to   *)
(* that counter's own ticks since its last reset, 0 after construction and *)
(* after reset; reset() and get() leave the timer alone; a tick credits    *)
(* the interval to its own counter only and restarts the shared timer.     *)
(***************************************************************************)
CounterSums == \A c \in Counters : us[c] = Credit(hist, c)

TimerSteps ==
  /\ got' # got => got'.v = Credit(hist, got'.c) /\ UNCHANGED <<prev, us, hist>>
  /\ Did("reset") => prev' = prev /\ us'[Last(hist').c] = 0
  /\ Did("tick") => /\ \A o \in Counters \ {Last(hist').c} : us'[o] = us[o]
                    /\ prev' = timeMicros(clock)

C6_CounterSums == []CounterSums /\ [][TimerSteps]_vars

C6_Witness ==
  /\ Len(hist) = 4
  /\ hist[1].op = "tick" /\ hist[1].c = 1
  /\ hist[2].op = "tick" /\ hist[2].c = 2
  /\ hist[3].op = "reset" /\ hist[3].c = 1
  /\ hist[4].op = "tick" /\ hist[4].c = 1
  /\ us[1] = hist[4].d /\ us[2] = hist[2].d

(***************************************************************************)
(* C7: MicroTimer::delta() returns the microseconds elapsed since the      *)
(* previous delta() (or construction) whenever that time e is in           *)
(* 0..999999, a wrap of the microsecond reading included.                  *)
(***************************************************************************)
C7_DeltaExact ==
  \A k \in 1..Len(hist) :
    (hist[k].op \in {"delta", "tick"} /\ 0 <= hist[k].e /\ hist[k].e < 1000000)
    => hist[k].d = hist[k].e /\ hist[k].d \in 0..999999

(***************************************************************************)
(* C8: setArgs with n arguments calls clSetKernelArg for the slots 0, 1,   *)
(* ..., n-1 in ascending order, each once, the i-th value with its own     *)
(* size to slot i-1; when a binding fails the process aborts with the      *)
(* lower slots bound and no higher slot bound.                             *)
(***************************************************************************)
C8_SlotsInOrder ==
  call.fn = "setArgs"
  => LET calls == NativesOf("clSetKernelArg")
         ok == Len(SelectSeq(calls, LAMBDA x : x.st = CL_SUCCESS))
     IN /\ calls = natives
        /\ Len(calls) <= Len(call.args)
        /\ \A j \in 1..Len(calls) : calls[j].a = <<j - 1, call.args[j], j>>
        /\ \A p \in 0..(NArgs - 1) : slots[p] = IF p < ok THEN p + 1 ELSE 0
        /\ pc = "done" => ok = Len(call.args)
        /\ aborted => ok = Len(calls) - 1

C8_Witness ==
  /\ call.fn = "setArgs" /\ aborted
  /\ Len(call.args) = 6 /\ call.args[3] # call.args[4]
  /\ Len(natives) = 4
  /\ slots[2] = 3 /\ slots[3] = 0

(***************************************************************************)
(* C9: getDeviceIDs and getNumberOfDevices query at most 8 platforms and   *)
(* index only the entries 0..7 of platforms[], however many platforms the  *)
(* runtime reports.                                                        *)
(***************************************************************************)
C9_PlatformCap ==
  /\ Len(Queries) <= 8
  /\ \A k \in 1..Len(Queries) : Queries[k].a[1] \in 0..7

(***************************************************************************)
(* C10: whenever compile() returns the null program, no program object it  *)
(* created is left live: released on the path where both builds fail,      *)
(* never created on the path where the file is missing.                    *)
(***************************************************************************)
C10_NoLiveProgramOnNull ==
  (call.fn = "compile" /\ ret = Returned(nullptr)) => program # "live"

====
